---- MODULE Spec2Model ----
(***************************************************************************)
(* Model of music-backup (src/main.rs): one backup run of main, i.e.       *)
(* zip_directory over the walked source tree, the single upload_to_gcs     *)
(* call, and cleanup_old_backups over the staging directory "tmp".         *)
(*                                                                         *)
(* The filesystem and the network are the environment: every call whose    *)
(* Result the code inspects may return Ok or Err.  The walked tree is       *)
(* revealed one entry per loop iteration, as walkdir yields it.            *)
(***************************************************************************)
EXTENDS Integers, Sequences, FiniteSets, TLC

KEEP_LOCAL_BACKUP_DAYS == 7
CHUNK_SIZE == 50

\* Bounds of the model.
MaxFiles == 121
MaxDirs == 2
MaxElapsed == 1

\* The day number of Local::now() in the run, and the ages (in days) of the
\* files that may lie in the staging directory before the run.
Now == 20
NoMTime == -1

StagedUniverse ==
    { [name |-> "old.zip",     ext |-> "zip", modified |-> Now - 10],
      [name |-> "edge.zip",    ext |-> "zip", modified |-> Now - KEEP_LOCAL_BACKUP_DAYS],
      [name |-> "new.zip",     ext |-> "zip", modified |-> Now - 3],
      [name |-> "old.txt",     ext |-> "txt", modified |-> Now - 10],
      [name |-> "nomtime.zip", ext |-> "zip", modified |-> NoMTime] }

\* The per-run directory tmp/{source_name}-{YYYYMMDD}, as a child of tmp.
RunDirEntry == [name |-> "rundir", ext |-> "", modified |-> Now]

\* Paths: the per-run directory and the segment files inside it.
RunDir == <<"tmp", "rundir">>
SegPath(i) == <<"tmp", "rundir", i>>

\* The object name gcs_dir of lines 263-267.
GcsDir == <<"gcs_dir">>

\* The writer bound to the path "temp.zip": no file backs it.
Dud == -1

VARIABLES
    pc,           \* position of main
    err,          \* the error main returned, "none" while running
    source,       \* config.source_path on disk: "missing", "file" or "dir"
    credFile,     \* config.credentials_path: "missing", "invalid" or "valid"
    tmpExists,    \* the staging directory "tmp" exists
    runDirExists, \* the per-run directory exists
    staged,       \* immediate children of tmp, other than the run directory
    rootSeen,     \* the walker has yielded the root entry
    entries,      \* entries yielded by the walker, the root excluded
    file_count,   \* zip_directory's file_count
    zip,          \* zip_directory's outer `zip` writer
    segments,     \* segment files on disk: index -> contents
    createLog,    \* indices passed to a successful File::create, in order
    uploadLog,    \* calls of upload_to_gcs: path read, key, outcome
    remote,       \* object names present in the bucket
    sweepRan,     \* cleanup_old_backups has been called
    todo,         \* entries cleanup_old_backups has still to visit
    removed,      \* children of tmp removed by the sweep
    reported,     \* "Backup completed successfully!" was printed
    credParses,   \* times the credentials file was parsed (line 147)
    now,          \* the day Local::now() returns
    sweeps,       \* calls of cleanup_old_backups made so far
    kept          \* children of tmp when cleanup_old_backups was called again

vars == << pc, err, source, credFile, tmpExists, runDirExists, staged,
           rootSeen, entries, file_count, zip, segments, createLog,
           uploadLog, remote, sweepRan, todo, removed, reported,
           credParses, now, sweeps, kept >>

envVars == << source, credFile >>
zipVars == << rootSeen, entries, file_count, zip, segments, createLog >>
upVars == << uploadLog, remote, credParses >>
sweepVars == << sweepRan, todo, removed, staged, now, sweeps, kept >>

EmptySegment == [files |-> 0, dirs |-> 0, sealed |-> FALSE]
NoSegments == [i \in {} |-> EmptySegment]
DudWriter == [target |-> Dud, files |-> 0, dirs |-> 0]

Init ==
    /\ pc = "start"
    /\ err = "none"
    /\ source \in {"missing", "file", "dir"}
    /\ credFile \in {"missing", "invalid", "valid"}
    /\ staged \in SUBSET StagedUniverse
    /\ runDirExists \in BOOLEAN
    /\ tmpExists \in BOOLEAN
    /\ (staged # {} \/ runDirExists) => tmpExists
    /\ rootSeen = FALSE
    /\ entries = [files |-> 0, dirs |-> 0]
    /\ file_count = 0
    /\ zip = DudWriter
    /\ segments = NoSegments
    /\ createLog = << >>
    /\ uploadLog = << >>
    /\ remote = {}
    /\ sweepRan = FALSE
    /\ todo = {}
    /\ removed = {}
    /\ reported = FALSE
    /\ credParses = 0
    /\ now = Now
    /\ sweeps = 0
    /\ kept = {}

----------------------------------------------------------------------------
(* main, lines 217-251: configuration, validation, staging directory *)

\* `?` on a failed step: main returns the error.
Fail(e) ==
    /\ pc' = "failed"
    /\ err' = e

\* Lines 242-251.
Validate(mkdirOk) ==
    /\ pc = "start"
    /\ IF source = "missing" THEN
          /\ Fail("source_missing")
          /\ UNCHANGED tmpExists
       ELSE IF credFile = "missing" THEN
          /\ Fail("credentials_missing")
          /\ UNCHANGED tmpExists
       ELSE IF ~(tmpExists \/ mkdirOk) THEN
          /\ Fail("io")
          /\ UNCHANGED tmpExists
       ELSE
          /\ pc' = "zip"
          /\ tmpExists' = TRUE
          /\ UNCHANGED err
    /\ UNCHANGED << envVars, runDirExists, zipVars, upVars, sweepVars, reported >>

----------------------------------------------------------------------------
(* zip_directory, lines 69-136 *)

\* Line 88.
ShouldOpen(fc) == fc % CHUNK_SIZE = 0 /\ fc = 0

\* Lines 89-95: the index in the segment's file name.
ZipFileName(fc) == IF fc = 0 THEN 0 ELSE fc \div CHUNK_SIZE

\* Line 96-97: File::create truncates the file, ZipWriter::new starts an
\* empty container in it.
OpenSegment(segs, idx) ==
    [i \in DOMAIN segs \cup {idx} |-> IF i = idx THEN EmptySegment ELSE segs[i]]

\* Line 98: the writer declared at line 97 goes out of scope at the end of
\* the block; dropping a ZipWriter finalizes its container.
LeaveOpen(segs, idx) == segs
SealOnDrop(segs, idx) == [segs EXCEPT ![idx].sealed = TRUE]

\* Line 97 is a `let`: it declares a new binding local to the block, so the
\* writer of line 85 that lines 119-126 use is unchanged.
RebindAssign(z, idx) == [target |-> idx, files |-> 0, dirs |-> 0]
Rebind(z, idx) == z

\* Lines 119-126: one member appended through the writer z.
AddMember(z, kind) ==
    IF kind = "file" THEN [z EXCEPT !.files = @ + 1] ELSE [z EXCEPT !.dirs = @ + 1]

\* What main does with zip_directory's result, line 274.
AlwaysUpload(ok) == "zip_ok"
AfterZip(ok) == IF ok THEN "zip_ok" ELSE "failed"

\* The outcomes one loop iteration can have for an entry of a kind.
Outcomes(kind, open) ==
    (IF open /\ ~runDirExists THEN {"create_fail"}
     ELSE (IF open THEN {"create_fail"} ELSE {})
          \cup {"ok"}
          \cup (IF kind = "file" THEN {"read_fail"} ELSE {})
          \cup (IF kind # "root" THEN {"write_fail"} ELSE {}))

\* One iteration of the loop of line 86 on the next entry the walker yields.
ZipEntry(kind, outcome) ==
    /\ pc = "zip"
    /\ (kind = "root") = ~rootSeen
    /\ kind # "root" => source = "dir"
    /\ kind = "file" => entries.files < MaxFiles
    /\ kind = "dir" => entries.dirs < MaxDirs
    /\ outcome \in Outcomes(kind, ShouldOpen(file_count))
    /\ LET open == ShouldOpen(file_count) /\ outcome # "create_fail"
           idx == ZipFileName(file_count)
           segs1 == IF open THEN SealOnDrop(OpenSegment(segments, idx), idx)
                    ELSE segments
           zip1 == IF open THEN Rebind(zip, idx) ELSE zip
           written == kind # "root" /\ outcome = "ok"
       IN  /\ rootSeen' = TRUE
           /\ entries' = IF kind = "file" THEN [entries EXCEPT !.files = @ + 1]
                         ELSE IF kind = "dir" THEN [entries EXCEPT !.dirs = @ + 1]
                         ELSE entries
           /\ createLog' = IF open THEN Append(createLog, idx) ELSE createLog
           /\ IF written /\ zip1.target # Dud THEN
                 /\ segments' = [segs1 EXCEPT ![zip1.target] = AddMember(@, kind)]
                 /\ zip' = zip1
              ELSE
                 /\ segments' = segs1
                 /\ zip' = IF written THEN AddMember(zip1, kind) ELSE zip1
           /\ file_count' = IF written /\ kind = "file" THEN file_count + 1
                            ELSE file_count
           /\ IF outcome = "ok" THEN UNCHANGED << pc, err >>
              ELSE /\ pc' = AfterZip(FALSE)
                   /\ err' = CASE outcome = "create_fail" -> "create"
                               [] outcome = "read_fail" -> "read"
                               [] outcome = "write_fail" -> "write"
    /\ UNCHANGED << envVars, tmpExists, runDirExists, upVars, sweepVars, reported >>

\* The walker is exhausted: lines 132-135, zip_directory returns Ok.
ZipReturn ==
    /\ pc = "zip"
    /\ rootSeen
    /\ pc' = AfterZip(TRUE)
    /\ UNCHANGED << err, envVars, tmpExists, runDirExists, zipVars, upVars,
                    sweepVars, reported >>

----------------------------------------------------------------------------
(* upload_to_gcs, lines 138-183, as main calls it at lines 277-282 *)

\* Line 278: the path main passes as file_path.
UploadPath == RunDir

\* Line 280: the object name main passes as destination_name.
UploadKey == GcsDir

\* The outcomes of the call: credentials that do not parse (line 148), the
\* client configuration panicking (line 154), the read of file_path failing
\* (lines 158-162), the transfer failing (line 177), or Ok.
UploadOutcomesUnchecked == {"client_panic", "read", "network", "ok"}
UploadOutcomes ==
    IF credFile = "invalid" THEN {"credentials"}
    ELSE {"client_panic", "read", "network", "ok"}

\* What main does with upload_to_gcs's result, line 282.
AfterUpload(ok) == IF ok THEN "sweep" ELSE "failed"

\* Lines 277-282: the one call of upload_to_gcs.  zip_directory's locals are
\* out of scope by now.
MainUpload(outcome) ==
    /\ pc = "zip_ok"
    /\ outcome \in UploadOutcomes
    /\ uploadLog' = Append(uploadLog,
                       [path |-> UploadPath, key |-> UploadKey, outcome |-> outcome])
    /\ remote' = IF outcome = "ok" THEN remote \cup {UploadKey} ELSE remote
    /\ credParses' = credParses + 1
    /\ pc' = AfterUpload(outcome = "ok")
    /\ err' = IF outcome = "ok" THEN err ELSE outcome
    /\ rootSeen' = FALSE
    /\ entries' = [files |-> 0, dirs |-> 0]
    /\ file_count' = 0
    /\ zip' = DudWriter
    /\ UNCHANGED << envVars, tmpExists, runDirExists, segments, createLog,
                    sweepVars, reported >>

----------------------------------------------------------------------------
(* cleanup_old_backups, lines 185-209, as main calls it at line 285 *)

\* Line 186.
Cutoff(keep_days) == now - keep_days

\* Line 196.
IsArchive(f) == f.ext = "zip"

\* Lines 198-200: the modification time is available and before the cutoff.
ExpiredOrEqual(f, cutoff) == f.modified # NoMTime /\ f.modified <= cutoff
Expired(f, cutoff) == f.modified # NoMTime /\ f.modified < cutoff

\* Lines 186-192: the call, the existence test and read_dir.
SweepBegin(readDirOk) ==
    /\ pc = "sweep"
    /\ sweepRan' = TRUE
    /\ sweeps' = sweeps + 1
    /\ IF ~tmpExists THEN
          /\ pc' = "done"
          /\ reported' = TRUE
          /\ UNCHANGED << err, todo >>
       ELSE IF ~readDirOk THEN
          /\ Fail("io")
          /\ UNCHANGED << todo, reported >>
       ELSE
          /\ pc' = "sweeping"
          /\ todo' = staged \cup (IF runDirExists THEN {RunDirEntry} ELSE {})
          /\ UNCHANGED << err, reported >>
    /\ UNCHANGED << envVars, tmpExists, runDirExists, zipVars, upVars,
                    removed, staged, now, kept >>

\* The outcomes of one iteration of the loop of line 192 on the entry f.
SweepOutcomes(f) ==
    {"entry_err", "ok"}
    \cup (IF IsArchive(f) THEN {"metadata_err"} ELSE {})
    \cup (IF IsArchive(f) /\ Expired(f, Cutoff(KEEP_LOCAL_BACKUP_DAYS))
          THEN {"remove_err"} ELSE {})

\* Lines 192-206: one iteration, on an entry read_dir yields.
SweepEntry(f, outcome) ==
    /\ pc = "sweeping"
    /\ f \in todo
    /\ outcome \in SweepOutcomes(f)
    /\ todo' = todo \ {f}
    /\ IF outcome = "ok" THEN
          /\ IF IsArchive(f) /\ Expired(f, Cutoff(KEEP_LOCAL_BACKUP_DAYS)) THEN
                /\ staged' = staged \ {f}
                /\ removed' = removed \cup {f}
             ELSE UNCHANGED << staged, removed >>
          /\ UNCHANGED << pc, err >>
       ELSE
          /\ Fail(outcome)
          /\ UNCHANGED << staged, removed >>
    /\ UNCHANGED << envVars, tmpExists, runDirExists, zipVars, upVars,
                    sweepRan, reported, now, sweeps, kept >>

\* A return from inside the loop, before every entry was visited.
SweepReturnEarly ==
    /\ pc = "sweeping"
    /\ pc' = "done"
    /\ reported' = TRUE
    /\ UNCHANGED << err, envVars, tmpExists, runDirExists, zipVars, upVars,
                    sweepVars >>

\* Line 208 and lines 286-288: the sweep returns Ok and main reports success.
SweepReturn ==
    /\ pc = "sweeping"
    /\ todo = {}
    /\ pc' = "done"
    /\ reported' = TRUE
    /\ UNCHANGED << err, envVars, tmpExists, runDirExists, zipVars, upVars,
                    sweepVars >>

\* Lines 185-186 once more: cleanup_old_backups is called a second time on
\* the same directory with the same keep_days, no file created or modified
\* since the first call returned Ok; the clock has moved on by `elapsed`.
SweepAgain(elapsed) ==
    /\ pc = "done"
    /\ sweeps = 1
    /\ tmpExists
    /\ pc' = "sweep"
    /\ kept' = staged
    /\ now' = now + elapsed
    /\ UNCHANGED << err, envVars, tmpExists, runDirExists, zipVars, upVars,
                    sweepRan, todo, removed, staged, sweeps, reported >>

----------------------------------------------------------------------------

Next ==
    \/ \E mkdirOk \in BOOLEAN : Validate(mkdirOk)
    \/ \E kind \in {"root", "file", "dir"},
          outcome \in {"ok", "create_fail", "read_fail", "write_fail"} :
            ZipEntry(kind, outcome)
    \/ ZipReturn
    \/ \E outcome \in {"credentials", "client_panic", "read", "network", "ok"} :
            MainUpload(outcome)
    \/ \E readDirOk \in BOOLEAN : SweepBegin(readDirOk)
    \/ \E f \in StagedUniverse \cup {RunDirEntry},
          outcome \in {"ok", "entry_err", "metadata_err", "remove_err"} :
            SweepEntry(f, outcome)
    \/ SweepReturn

Spec == Init /\ [][Next]_vars

\* The run, followed by a second call of cleanup_old_backups.
NextResweep ==
    \/ Next
    \/ \E elapsed \in 0..MaxElapsed : SweepAgain(elapsed)

SpecResweep == Init /\ [][NextResweep]_vars

----------------------------------------------------------------------------
(* Properties *)

RECURSIVE SumMembers(_, _)
SumMembers(segs, S) ==
    IF S = {} THEN 0
    ELSE LET i == CHOOSE x \in S : TRUE
         IN  segs[i].files + segs[i].dirs + SumMembers(segs, S \ {i})

\* Members held by all segment files together.
SegMemberTotal == SumMembers(segments, DOMAIN segments)

Ceil(a, b) == (a + b - 1) \div b

\* Calls of upload_to_gcs that read the path p.
Attempts(p) == { k \in 1..Len(uploadLog) : uploadLog[k].path = p }

\* Age in days of a staged file that has a modification time.
Age(f) == Now - f.modified

\* C1: when zip_directory returns Ok, the members of the segment files
\* together are the entries of the tree other than the root: as many
\* members over all segments as entries.
C1_EveryEntryInOneSegment ==
    pc = "zip_ok" => SegMemberTotal = entries.files + entries.dirs

\* C2: at every point of the run every segment file holds at most
\* CHUNK_SIZE file members.
C2_SegmentHoldsAtMostChunk ==
    \A i \in DOMAIN segments : segments[i].files <= CHUNK_SIZE

\* More than CHUNK_SIZE files have been archived and segment 0 is on disk.
C2_Witness ==
    /\ pc = "zip"
    /\ file_count > CHUNK_SIZE
    /\ 0 \in DOMAIN segments
    /\ segments[0].files <= CHUNK_SIZE

\* C3: for a tree of F >= 1 files zip_directory produces ceil(F/C) segments,
\* all but the last holding C files and the last holding the rest.
C3_SegmentCounts ==
    (pc = "zip_ok" /\ entries.files >= 1) =>
        LET F == entries.files
            N == Ceil(F, CHUNK_SIZE)
        IN  /\ DOMAIN segments = 0..(N - 1)
            /\ \A i \in DOMAIN segments :
                  segments[i].files =
                      IF i < N - 1 THEN CHUNK_SIZE ELSE F - CHUNK_SIZE * (N - 1)

\* C4: the segments opened in a run have the indices 0, 1, 2, ... in the
\* order they are opened: the first is 0, each later one is one greater than
\* the one before, none is skipped or used twice.
C4_IndicesContiguous ==
    \A k \in 1..Len(createLog) : createLog[k] = k - 1

\* C5: whenever upload_to_gcs is about to be called or has been called,
\* every segment file on disk is sealed: no upload reads a segment that is
\* open for writing or was never finalized.
C5_SealedBeforeUpload ==
    (pc = "zip_ok" \/ uploadLog # << >>) =>
        \A i \in DOMAIN segments : segments[i].sealed

\* upload_to_gcs has read the run directory, which holds sealed segment 0.
C5_Witness ==
    /\ uploadLog # << >>
    /\ uploadLog[1].path = RunDir
    /\ 0 \in DOMAIN segments
    /\ segments[0].sealed

\* C6: once the upload phase is over, an upload was attempted for each
\* produced segment exactly once.
C6_EachSegmentAttemptedOnce ==
    (pc \in {"sweep", "sweeping", "done"} \/ (pc = "failed" /\ uploadLog # << >>)) =>
        \A i \in DOMAIN segments : Cardinality(Attempts(SegPath(i))) = 1

C8_SweepAfterUpload ==
    (pc \in {"done", "failed"} /\ uploadLog # << >>) => sweepRan

\* C9: when zip_directory fails with an archive error the run ends in
\* failure, no upload and no sweep is attempted, and every segment file
\* created so far is still on disk.
C9_ArchiveErrorEndsRun ==
    err \in {"create", "write"} =>
        /\ pc = "failed"
        /\ uploadLog = << >>
        /\ ~sweepRan
        /\ removed = {}
        /\ ~reported
        /\ \A k \in 1..Len(createLog) : createLog[k] \in DOMAIN segments

\* Writing a member failed after segment 0 was created: the run has failed
\* and 0.zip is on disk.
C9_Witness ==
    /\ pc = "failed"
    /\ err = "write"
    /\ 0 \in DOMAIN segments
    /\ uploadLog = << >>

\* C10: after cleanup_old_backups returns Ok, an archive file of the
\* directory that has a modification time exists iff it existed before and
\* is not older than keep_days; every other file is untouched.
C10_SweepRemovesExactlyExpired ==
    pc = "done" =>
        /\ staged \cap removed = {}
        /\ \A f \in staged \cup removed :
              IF f.ext = "zip" /\ f.modified # NoMTime
              THEN (f \in staged) <=> ~(Age(f) > KEEP_LOCAL_BACKUP_DAYS)
              ELSE f \in staged

\* The sweep returned Ok having removed the 10-day archive and kept the
\* 3-day one.
C10_Witness ==
    /\ pc = "done"
    /\ \E f \in removed : f.ext = "zip" /\ Age(f) = 10
    /\ \E f \in staged : f.ext = "zip" /\ Age(f) = 3

\* The object name the interface gives segment i: {gcs_dir}/{i}.zip.
SegKey(i) == <<"gcs_dir", i>>

\* Segment file i as a directory entry.
SegEntry(i) ==
    [name |-> "rundir/" \o ToString(i) \o ".zip", ext |-> "zip", modified |-> Now]

\* The archive files the first sweep left are on the same side of keep_days
\* at the clock readings of both sweeps.
SameExpiry ==
    \A f \in kept :
        (f.ext = "zip" /\ f.modified # NoMTime) =>
            ((Now - f.modified > KEEP_LOCAL_BACKUP_DAYS)
                <=> (now - f.modified > KEEP_LOCAL_BACKUP_DAYS))

\* C11 as stated: a second cleanup_old_backups on the same directory, no
\* file created or modified in between, deletes nothing.
C11_SecondSweepDeletesNothing ==
    (sweeps = 2 /\ pc = "done") => staged = kept

\* C11 amended: the second sweep deletes nothing provided no archive file the
\* first sweep left has become older than keep_days by the time the second
\* sweep reads the clock.
C11_SecondSweepDeletesNothingUnlessAged ==
    (sweeps = 2 /\ pc = "done" /\ SameExpiry) => staged = kept

\* The second sweep, at a later clock reading, returned Ok and left the
\* archives that the first sweep had left, the first having removed one.
C11_Witness ==
    /\ sweeps = 2
    /\ pc = "done"
    /\ now > Now
    /\ SameExpiry
    /\ removed # {}
    /\ \E f \in kept : f.ext = "zip" /\ f.modified # NoMTime
    /\ staged = kept

\* C12: every upload of a run uses the object name {gcs_dir}/{i}.zip of the
\* segment i it transfers, and no two uploads use the same name.
C12_KeysPerSegmentDistinct ==
    /\ \A k \in 1..Len(uploadLog) :
          \E i \in DOMAIN segments :
              uploadLog[k].path = SegPath(i) /\ uploadLog[k].key = SegKey(i)
    /\ \A j, k \in 1..Len(uploadLog) :
          j # k => uploadLog[j].key # uploadLog[k].key

\* C13: on an empty source directory zip_directory returns Ok having
\* produced the one segment 0 with no member; that the run directory is not
\* there beforehand does not make it fail.
C13_EmptyTreeOneEmptySegment ==
    (/\ source = "dir"
     /\ rootSeen
     /\ entries = [files |-> 0, dirs |-> 0]
     /\ \/ pc = "zip_ok"
        \/ pc = "failed" /\ err = "create" /\ ~runDirExists) =>
        /\ pc = "zip_ok"
        /\ DOMAIN segments = {0}
        /\ segments[0].files = 0
        /\ segments[0].dirs = 0

\* C14: when the source path is missing or not a directory, or the
\* credentials are missing or do not parse, the run does not get past
\* validation: no segment file is created, no upload and no sweep is made.
C14_InvalidConfigStopsAtValidation ==
    (source \in {"missing", "file"} \/ credFile \in {"missing", "invalid"}) =>
        /\ pc \in {"start", "failed"}
        /\ createLog = << >>
        /\ segments = NoSegments
        /\ uploadLog = << >>
        /\ ~sweepRan

\* C16: a file entry that cannot be opened or read is skipped: it never ends
\* zip_directory with an error.
C16_UnreadableFileSkipped ==
    ~(pc = "failed" /\ err = "read")

\* C17: a failed deletion, or unreadable metadata, of one file does not end
\* the sweep or the run with an error.
C17_DeleteFailureNotPropagated ==
    ~(pc = "failed" /\ err \in {"remove_err", "metadata_err"})

C19_SegmentCreatedOnce ==
    \A i \in DOMAIN segments :
        Cardinality({ k \in 1..Len(createLog) : createLog[k] = i }) <= 1

\* C20: every segment file the run wrote is among the entries the sweep of
\* main examines.
C20_SegmentsExaminedBySweep ==
    pc = "sweeping" =>
        \A i \in DOMAIN segments :
            SegEntry(i) \in todo \cup staged \cup removed

====
